---- MODULE Spec2Model ----
(***************************************************************************)
(* Model of lib/types/parameter-value.js (Sway): the ParameterValue cell   *)
(* with its three lazy, memoised facets `value`, `valid` and `error`, and  *)
(* the root API definition whose `paths` keys escapePaths rewrites.        *)
(*                                                                         *)
(* One ParameterValue instance is live at a time.  The caller may drop it   *)
(* (action Discard) and construct another one (action New) against the     *)
(* same root document, which is how several parameter values come to       *)
(* validate against one shared document.                                   *)
(* The collaborators of helpers.js (convertValue, isFile,                  *)
(* constructSchemaPathFromPtr, validateAgainstSchema, escapeSingleQuotes)  *)
(* are modelled at their interface: convertValue and validateAgainstSchema *)
(* answer nondeterministically (a result or a throw).                      *)
(***************************************************************************)
EXTENDS Integers, Sequences, FiniteSets, TLC

VARIABLES
  parameterObject,  \* this.parameterObject (schema, required, type, ptr, ...)
  raw,              \* this.raw
  validateOptions,  \* the constructor's validateOptions argument
  processed,        \* closure variable `processed`
  processedValue,   \* closure variable `processedValue`
  error,            \* closure variable `error`
  isValid,          \* closure variable `isValid`
  paths,            \* parameterObject.pathObject.api.definition.paths
  loadedPaths,      \* the paths of the root document as it was loaded
  escapes,          \* the escapePaths passes made by this instance: before, after
  raised,           \* a read of this instance ended with an exception, not an answer
  log,              \* collaborator calls and checks made by this instance, in order
  validated,        \* the calls of validateAgainstSchema made by this instance
  first,            \* per facet: what its first read returned
  last,             \* per facet: what its latest read returned
  reread            \* the caller has read a facet that had been read before

vars == <<parameterObject, raw, validateOptions, processed, processedValue,
          error, isValid, paths, loadedPaths, escapes, raised, log, validated,
          first, last, reread>>

-----------------------------------------------------------------------------
(* Bounds of the model *)

\* longest oneOf list a schema of the model declares
MaxAlts == 3

-----------------------------------------------------------------------------
(* JavaScript values.  A value is [k |-> kind, e |-> elements]; e is only   *)
(* non-empty for arrays, whose elements are kinds of scalars.               *)

Scalar(kind) == [k |-> kind, e |-> <<>>]
ArrayOf(kinds) == [k |-> "array", e |-> kinds]

Undefined == Scalar("undefined")
EmptyString == Scalar("empty")        \* ''
SomeString == Scalar("str")           \* a non-empty string
SomeDate == Scalar("date")            \* a Date object
SomeBuffer == Scalar("buffer")        \* a Buffer (has readUInt8)
SchemaDefault == Scalar("dflt")       \* the value of schema.default
ItemDefault == "idflt"                \* the value of an item schema's default

\* _.isUndefined
isUndefined(v) == v = Undefined
\* _.isDate
isDate(v) == v.k = "date"
\* _.isFunction(value.readUInt8)
hasReadUInt8(v) == v.k = "buffer"

\* a facet that was not read yet, as a value, a verdict and an error
NotReadValue == Scalar("not-read")
NotReadValid == "not-read"

\* error objects; NoError is `undefined`
NoError ==
  [code |-> "undefined", failedValidation |-> FALSE, schemaPath |-> "undefined",
   errors |-> <<>>, extensible |-> FALSE]
\* what convertValue throws: its own code, no validation stamp
CoercionError ==
  [code |-> "INVALID_TYPE", failedValidation |-> FALSE, schemaPath |-> "undefined",
   errors |-> <<>>, extensible |-> TRUE]
\* what validateAgainstSchema throws when it throws an error object
ValidatorError ==
  [code |-> "VALIDATOR_FAILURE", failedValidation |-> FALSE, schemaPath |-> "undefined",
   errors |-> <<>>, extensible |-> TRUE]
\* what validateAgainstSchema throws when it throws a value that takes no
\* properties: a primitive, null, undefined or a frozen object
ThrownPrimitive ==
  [code |-> "undefined", failedValidation |-> FALSE, schemaPath |-> "undefined",
   errors |-> <<>>, extensible |-> FALSE]
NotReadError ==
  [code |-> "not-read", failedValidation |-> FALSE, schemaPath |-> "undefined",
   errors |-> <<>>, extensible |-> FALSE]

-----------------------------------------------------------------------------
(* Inputs: schemas, descriptors, raw values, documents *)

AltTypes == <<"null", "string", "integer", "number", "boolean">>
\* schema.oneOf: absent (NoOneOf stands for a missing property), or a list
NoOneOf == <<"absent">>
OneOfLists == {NoOneOf} \cup {SubSeq(AltTypes, 1, n) : n \in {1, MaxAlts}}

\* schema.items: absent, one schema, or a list of schemas (their defaults)
NoItems == [kind |-> "absent", defaults |-> <<>>]
ItemsChoices ==
  { NoItems,
    [kind |-> "single", defaults |-> <<"undefined">>],
    [kind |-> "single", defaults |-> <<ItemDefault>>],
    [kind |-> "list", defaults |-> <<"undefined", "undefined">>],
    [kind |-> "list", defaults |-> <<ItemDefault, "undefined">>] }

\* the properties a schema of a given type carries in the model
WellFormed(s) ==
  /\ s.format = "date" => s.type = "string"
  /\ s.items # NoItems => s.type = "array"
  /\ s.type = "array" => ~s.allowEmptyValue /\ ~s.nestedFile
  /\ s.type = "file" => ~s.nestedFile /\ ~s.allowEmptyValue
  /\ s.allowEmptyValue => s.oneOf = NoOneOf

Schemas ==
  { s \in [type : {"file", "string", "integer", "array"},
           format : {"none", "date"},
           oneOf : OneOfLists,
           default : {Undefined, SchemaDefault},
           items : ItemsChoices,
           allowEmptyValue : BOOLEAN,
           nestedFile : BOOLEAN] : WellFormed(s) }

\* required: true, false or absent
RequiredChoices == {"true", "false", "absent"}

\* ptr, definition.schema, collectionFormat and validateOptions come in two profiles
Profiles ==
  { [ptr |-> "#/paths/~1pets/get/parameters/0", definitionSchema |-> "absent",
     collectionFormat |-> "csv", options |-> "undefined"],
    [ptr |-> "#/paths/~1pets/post/parameters/1", definitionSchema |-> "present",
     collectionFormat |-> "multi", options |-> "isPathCaseSensitive"] }

Descriptor(s, r, pt, p) ==
  [schema |-> s, required |-> r, type |-> pt, ptr |-> p.ptr,
   definitionSchema |-> p.definitionSchema, collectionFormat |-> p.collectionFormat]

RawValues == {Undefined, EmptyString, SomeString}

\* root documents: `paths` is an object, its entries <<key, path item>> kept in
\* the order in which the keys were inserted
Docs ==
  { << <<"/q'", "itemQ">>, <<"/p", "itemP">> >>,
    << <<"/q\\'", "itemR">>, <<"/q'", "itemQ">> >> }

-----------------------------------------------------------------------------
(* Collaborators (helpers.js) *)

\* helpers.convertValue(schema, {collectionFormat}, raw): returns a value or throws
CoercedValues == {Undefined, EmptyString, SomeString, SomeDate, SomeBuffer}
convertValue(nodeType, collectionFormat, rawValue) ==
  {[threw |-> TRUE, val |-> Undefined]}
    \cup {[threw |-> FALSE, val |-> v] : v \in CoercedValues}

\* helpers.isFile(schema): the schema or its nested schema is a file
isFile(s) == s.type = "file" \/ s.nestedFile

\* helpers.constructSchemaPathFromPtr(ptr, definition.schema)
constructSchemaPathFromPtr(ptr, definitionSchema) ==
  [ptr |-> ptr, schema |-> definitionSchema]

\* helpers.validateAgainstSchema(...): returns {errors, warnings} or throws
\* (`thrown` is what it threw, NoError when it returned)
ValidatorOutcomes ==
  { [threw |-> FALSE, errors |-> <<>>, warnings |-> <<>>, thrown |-> NoError],
    [threw |-> FALSE, errors |-> <<>>, warnings |-> <<"w1">>, thrown |-> NoError],
    [threw |-> FALSE, errors |-> <<"e1", "e2">>, warnings |-> <<>>, thrown |-> NoError],
    [threw |-> TRUE, errors |-> <<>>, warnings |-> <<>>, thrown |-> ValidatorError],
    [threw |-> TRUE, errors |-> <<>>, warnings |-> <<>>, thrown |-> ThrownPrimitive] }
validateAgainstSchema(schemaObj, value, schemaPath, options) == ValidatorOutcomes

\* helpers.escapeSingleQuotes(key): idempotent
escapeSingleQuotes(key) == IF key = "/q'" THEN "/q\\'" ELSE key

-----------------------------------------------------------------------------
(* escapePaths *)

\* the keys of the object p, in insertion order: the order in which _.each
\* enumerates them
pathKeys(p) == [i \in 1..Len(p) |-> p[i][1]]

\* key in p
hasPath(p, key) == \E i \in 1..Len(p) : p[i][1] = key

\* p[key]
getPath(p, key) == p[CHOOSE i \in 1..Len(p) : p[i][1] = key][2]

\* schema['paths'][escapedKey] = value: a key the object has keeps its place, a
\* new key comes last
SetPath(p, key, value) ==
  IF hasPath(p, key)
  THEN [i \in 1..Len(p) |-> IF p[i][1] = key THEN <<key, value>> ELSE p[i]]
  ELSE Append(p, <<key, value>>)

\* _.each over the keys `paths` had when the pass began, each with the value it
\* has when its turn comes
RECURSIVE escapeEach(_, _, _)
escapeEach(p, keys, i) ==
  IF i > Len(keys) THEN p
  ELSE escapeEach(SetPath(p, escapeSingleQuotes(keys[i]), getPath(p, keys[i])),
                  keys, i + 1)

\* a pass that leaves the document as it is
MutEscapePaths(p) == p

escapePaths(p) == escapeEach(p, pathKeys(p), 1)

-----------------------------------------------------------------------------
(* The closure state of one ParameterValue, as a record *)

Cell ==
  [processed |-> processed, processedValue |-> processedValue, error |-> error,
   isValid |-> isValid, paths |-> paths, escapes |-> escapes, raised |-> raised,
   log |-> log, validated |-> validated, first |-> first, last |-> last]

\* an entry of the call log
Event(op, idx, node, arg, out, threw) ==
  [op |-> op, idx |-> idx, node |-> node, arg |-> arg, out |-> out, threw |-> threw]

\* a facet read returns v: remember the first and the latest answer
ObserveValue(c, v) ==
  [c EXCEPT !.first.value = IF @ = NotReadValue THEN v ELSE @, !.last.value = v]
ObserveValid(c, v) ==
  [c EXCEPT !.first.valid = IF @ = NotReadValid THEN v ELSE @, !.last.valid = v]
ObserveError(c, v) ==
  [c EXCEPT !.first.error = IF @ = NotReadError THEN v ELSE @, !.last.error = v]

-----------------------------------------------------------------------------
(* The value getter *)

\* a value getter that forgets it has already processed the raw value
MutNeedsProcessing(c) == TRUE

\* if (!processed)
NeedsProcessing(c) == ~c.processed

\* a loop without the break: every alternative is tried, the last one wins
MutFoundMatch(pv, rawValue) == FALSE

\* processedValue !== undefined && processedValue !== raw
FoundMatch(pv, rawValue) == pv # Undefined /\ pv # rawValue

\* a loop that assigns processedValue only when an alternative matched
RECURSIVE MutOneOfLoop(_, _, _, _, _)
MutOneOfLoop(po, rawValue, i, pv, calls) ==
  LET alts == po.schema.oneOf IN
  IF i > Len(alts) THEN {[pv |-> pv, threw |-> FALSE, calls |-> calls]}
  ELSE IF alts[i] = "null" THEN MutOneOfLoop(po, rawValue, i + 1, pv, calls)
  ELSE UNION {
    LET call == Append(calls, Event("convert", i, alts[i], rawValue, o.val, o.threw)) IN
    IF o.threw THEN {[pv |-> pv, threw |-> TRUE, calls |-> call]}
    ELSE IF FoundMatch(o.val, rawValue)
         THEN {[pv |-> o.val, threw |-> FALSE, calls |-> call]}
         ELSE MutOneOfLoop(po, rawValue, i + 1, pv, call)
    : o \in convertValue(alts[i], po.collectionFormat, rawValue) }

\* for (const oneOfSchema of schema.oneOf), from alternative i on; pv is the
\* processedValue so far.  The outcomes: [pv, threw, calls].
RECURSIVE oneOfLoop(_, _, _, _, _)
oneOfLoop(po, rawValue, i, pv, calls) ==
  LET alts == po.schema.oneOf IN
  IF i > Len(alts) THEN {[pv |-> pv, threw |-> FALSE, calls |-> calls]}
  ELSE IF alts[i] = "null" THEN oneOfLoop(po, rawValue, i + 1, pv, calls)
  ELSE UNION {
    LET call == Append(calls, Event("convert", i, alts[i], rawValue, o.val, o.threw)) IN
    IF o.threw THEN {[pv |-> pv, threw |-> TRUE, calls |-> call]}
    ELSE IF FoundMatch(o.val, rawValue)
         THEN {[pv |-> o.val, threw |-> FALSE, calls |-> call]}
         ELSE oneOfLoop(po, rawValue, i + 1, o.val, call)
    : o \in convertValue(alts[i], po.collectionFormat, rawValue) }

\* the try block: oneOf loop, or one conversion against the schema itself
Coerce(po, rawValue) ==
  IF po.schema.oneOf # NoOneOf
  THEN oneOfLoop(po, rawValue, 1, Undefined, <<>>)
  ELSE { [pv |-> o.val, threw |-> o.threw,
          calls |-> <<Event("convert", 0, po.schema.type, rawValue, o.val, o.threw)>>]
         : o \in convertValue(po.schema.type, po.collectionFormat, rawValue) }

\* _.every(processedValue, _.isUndefined)
EveryUndefined(kinds) == \A i \in 1..Len(kinds) : kinds[i] = "undefined"

\* the defaults of an array schema's items
ItemsDefault(schema, pv) ==
  IF schema.type = "array"
  THEN IF schema.items.kind = "list"
       THEN IF EveryUndefined(schema.items.defaults)
            THEN Undefined
            ELSE ArrayOf(schema.items.defaults)
       ELSE IF schema.items.kind = "single" /\ schema.items.defaults[1] # "undefined"
            THEN ArrayOf(<<schema.items.defaults[1]>>)
            ELSE pv
  ELSE pv

\* a fallback that prefers the schema's own default to the defaults of its items
MutDefaultFallback(schema, pv) ==
  IF ~isUndefined(schema.default) THEN schema.default ELSE ItemsDefault(schema, pv)

\* the default fallback, entered with an undefined value and no error
DefaultFallback(schema, pv) ==
  LET fromItems == ItemsDefault(schema, pv) IN
  IF isUndefined(fromItems) /\ ~isUndefined(schema.default)
  THEN schema.default
  ELSE fromItems

\* whether the fallback applies
UseDefault(pv, err) == isUndefined(pv) /\ err = NoError

\* a getter that lets a file-typed schema fall through to the default fallback
MutProcess(po, rawValue, err) ==
  IF po.schema.type = "file"
  THEN {[pv |-> IF UseDefault(rawValue, err)
                THEN DefaultFallback(po.schema, rawValue) ELSE rawValue,
         err |-> err, calls |-> <<>>]}
  ELSE { LET e == IF r.threw THEN CoercionError ELSE err IN
         [pv |-> IF UseDefault(r.pv, e) THEN DefaultFallback(po.schema, r.pv) ELSE r.pv,
          err |-> e, calls |-> r.calls]
         : r \in Coerce(po, rawValue) }

\* the body of `if (!processed)`: the outcomes [pv, err, calls]
Process(po, rawValue, err) ==
  IF po.schema.type = "file"
  THEN {[pv |-> rawValue, err |-> err, calls |-> <<>>]}
  ELSE { LET e == IF r.threw THEN CoercionError ELSE err IN
         [pv |-> IF UseDefault(r.pv, e) THEN DefaultFallback(po.schema, r.pv) ELSE r.pv,
          err |-> e, calls |-> r.calls]
         : r \in Coerce(po, rawValue) }

\* a value getter that settles the verdict as soon as it has coerced
MutValueGet(po, rawValue, c) ==
  IF NeedsProcessing(c)
  THEN { ObserveValue([c EXCEPT !.processed = TRUE, !.processedValue = r.pv,
                                !.error = r.err, !.log = c.log \o r.calls,
                                !.isValid = IF r.err = NoError THEN "true" ELSE "false"],
                      r.pv)
         : r \in Process(po, rawValue, c.error) }
  ELSE {ObserveValue(c, c.processedValue)}

\* get value(): the cells the read can leave, its answer in last.value
valueGet(po, rawValue, c) ==
  IF NeedsProcessing(c)
  THEN { ObserveValue([c EXCEPT !.processed = TRUE, !.processedValue = r.pv,
                                !.error = r.err, !.log = c.log \o r.calls], r.pv)
         : r \in Process(po, rawValue, c.error) }
  ELSE {ObserveValue(c, c.processedValue)}

-----------------------------------------------------------------------------
(* The valid getter *)

\* if (_.isUndefined(isValid))
NeedsValidation(c) == c.isValid = "undefined"

\* a requiredness check that exempts file parameters
MutMissingRequired(po, value) ==
  po.required = "true" /\ isUndefined(value) /\ po.type # "file"

\* parameterObject.required === true && _.isUndefined(value)
MissingRequired(po, value) == po.required = "true" /\ isUndefined(value)

\* new Error('Value is required but was not provided')
MissingRequiredError ==
  [code |-> "MISSING_REQUIRED_PARAMETER", failedValidation |-> FALSE,
   schemaPath |-> "undefined", errors |-> <<>>, extensible |-> TRUE]

\* new Error('Value failed JSON Schema validation')
SchemaValidationError(errors) ==
  [code |-> "SCHEMA_VALIDATION_FAILED", failedValidation |-> FALSE,
   schemaPath |-> "undefined", errors |-> errors, extensible |-> TRUE]

\* a chain whose first case only covers required === false, not an absent flag
MutSkipValidation(po, value) ==
  IF po.required = "false" /\ isUndefined(value) THEN TRUE
  ELSE IF po.schema.allowEmptyValue /\ value = EmptyString THEN TRUE
  ELSE IF po.type = "file" THEN TRUE
  ELSE IF po.schema.type = "string"
       THEN (po.schema.format \in {"date", "date-time"} /\ isDate(value))
            \/ hasReadUInt8(value)
  ELSE isFile(po.schema)

\* the chain of cases in which schema validation is not done
skipValidation(po, value) ==
  IF po.required \in {"absent", "false"} /\ isUndefined(value) THEN TRUE
  ELSE IF po.schema.allowEmptyValue /\ value = EmptyString THEN TRUE
  ELSE IF po.type = "file" THEN TRUE
  ELSE IF po.schema.type = "string"
       THEN IF po.schema.format \in {"date", "date-time"} /\ isDate(value) THEN TRUE
            ELSE IF po.schema.type = "string" /\ hasReadUInt8(value) THEN TRUE
            ELSE FALSE
  ELSE IF isFile(po.schema) THEN TRUE
  ELSE FALSE

\* a verdict that also counts the validator's warnings
MutHasErrors(result) == Len(result.errors) > 0 \/ Len(result.warnings) > 0

\* result.errors.length > 0
HasErrors(result) == Len(result.errors) > 0

\* a catch block that sets the verdict but drops the error
MutCaught(po, c, err) == [c EXCEPT !.isValid = "false"]

\* err.failedValidation = true succeeds; in strict mode it raises a TypeError
\* for a value that takes no properties
canStamp(err) == err.extensible

\* the catch block: stamp the error, keep it, the verdict is false.  When the
\* caught value cannot be stamped the TypeError leaves the getter before error
\* and isValid are assigned: the verdict stays as it was set on entry.
Caught(po, c, err) ==
  IF canStamp(err)
  THEN [c EXCEPT !.error = [err EXCEPT !.failedValidation = TRUE, !.schemaPath = po.ptr],
                 !.isValid = "false"]
  ELSE [c EXCEPT !.raised = TRUE]

\* the arguments of one call of validateAgainstSchema, and its answer
ValidatorCall(schemaObj, value, schemaPath, options, result) ==
  [schemaObj |-> schemaObj, value |-> value, schemaPath |-> schemaPath,
   options |-> options, result |-> result]

\* if (!skipValidation): escape the document's paths, build the schema path, validate
SchemaValidation(po, options, value, c) ==
  LET schemaObj == escapePaths(c.paths)
      schemaPath == constructSchemaPathFromPtr(po.ptr, po.definitionSchema)
  IN { LET c2 == [c EXCEPT
                    !.paths = schemaObj,
                    !.escapes = Append(@, [before |-> c.paths, after |-> schemaObj]),
                    !.log = Append(@, Event("validate", 0, po.schema.type, value,
                                            Undefined, result.threw)),
                    !.validated = Append(@, ValidatorCall(schemaObj, value, schemaPath,
                                                          options, result))]
       IN IF result.threw THEN Caught(po, c2, result.thrown)
          ELSE IF HasErrors(result)
               THEN Caught(po, c2, SchemaValidationError(result.errors))
               ELSE c2
       : result \in validateAgainstSchema(schemaObj, value, schemaPath, options) }

\* a try block that escapes the document's paths on entry
MutValidate(po, options, value, c) ==
  LET c1 == [c EXCEPT !.paths = escapePaths(c.paths),
                      !.log = Append(@, Event("required", 0, po.required, value,
                                              Undefined, MissingRequired(po, value)))]
  IN IF MissingRequired(po, value) THEN {Caught(po, c1, MissingRequiredError)}
     ELSE IF skipValidation(po, value) THEN {c1}
     ELSE SchemaValidation(po, options, value, c1)

\* the try block, entered with the value computed and no error captured
Validate(po, options, value, c) ==
  LET c1 == [c EXCEPT !.log = Append(@, Event("required", 0, po.required, value,
                                              Undefined, MissingRequired(po, value)))]
  IN IF MissingRequired(po, value) THEN {Caught(po, c1, MissingRequiredError)}
     ELSE IF skipValidation(po, value) THEN {c1}
     ELSE SchemaValidation(po, options, value, c1)

\* a valid getter that validates the raw value instead of this.value
MutValueRead(rawValue, c) == rawValue

\* value = this.value, in a cell whose value getter has run
ValueRead(rawValue, c) == c.processedValue

\* a valid getter that ignores the error the value getter captured
MutCoercionFailed(c) == FALSE

\* the verdict when `error` is already set after reading value
CoercionFailed(c) == c.error # NoError

\* the read that took cell c to cell c2 ended with an exception
RaisedIn(c, c2) == c2.raised /\ ~c.raised

\* get valid(): the cells the read can leave, its answer in last.valid; a read
\* that raises gives no answer
validGet(po, rawValue, options, c) ==
  IF NeedsValidation(c)
  THEN UNION {
         { IF RaisedIn(c, c2) THEN c2 ELSE ObserveValid(c2, c2.isValid) :
             c2 \in IF CoercionFailed(c1)
                    THEN {[c1 EXCEPT !.isValid = "false"]}
                    ELSE Validate(po, options, ValueRead(rawValue, c1), c1) }
         : c1 \in valueGet(po, rawValue, [c EXCEPT !.isValid = "true"]) }
  ELSE {ObserveValid(c, c.isValid)}

-----------------------------------------------------------------------------
(* The error getter *)

\* this.valid === true ? undefined : error
ErrorResult(c) == IF c.isValid = "true" THEN NoError ELSE c.error

\* get error(): the cells the read can leave, its answer in last.error
errorGet(po, rawValue, options, c) ==
  { IF RaisedIn(c, c1) THEN c1 ELSE ObserveError(c1, ErrorResult(c1))
    : c1 \in validGet(po, rawValue, options, c) }

-----------------------------------------------------------------------------
(* The state machine *)

\* the closure state right after the constructor
Fresh(p) ==
  [processed |-> FALSE, processedValue |-> Undefined, error |-> NoError,
   isValid |-> "undefined", paths |-> p, escapes |-> <<>>, raised |-> FALSE,
   log |-> <<>>, validated |-> <<>>,
   first |-> [value |-> NotReadValue, valid |-> NotReadValid, error |-> NotReadError],
   last |-> [value |-> NotReadValue, valid |-> NotReadValid, error |-> NotReadError]]

\* this.validateOptions = validateOptions || {}
ThisValidateOptions == IF validateOptions = "undefined" THEN "{}" ELSE validateOptions

Install(c) ==
  /\ processed' = c.processed
  /\ processedValue' = c.processedValue
  /\ error' = c.error
  /\ isValid' = c.isValid
  /\ paths' = c.paths
  /\ escapes' = c.escapes
  /\ raised' = c.raised
  /\ loadedPaths' = loadedPaths
  /\ log' = c.log
  /\ validated' = c.validated
  /\ first' = c.first
  /\ last' = c.last

\* no live instance: the caller dropped the last one
NoParameter ==
  [schema |-> "none", required |-> "absent", type |-> "none", ptr |-> "none",
   definitionSchema |-> "absent", collectionFormat |-> "none"]
Live == parameterObject # NoParameter

\* new ParameterValue(parameterObject, raw, validateOptions), on document doc
Construct(doc) ==
  \E s \in Schemas, r \in RequiredChoices, pt \in {"file", "other"},
     p \in Profiles, rv \in RawValues :
    /\ parameterObject' = Descriptor(s, r, pt, p)
    /\ raw' = rv
    /\ validateOptions' = p.options
    /\ reread' = FALSE
    /\ Install(Fresh(doc))

Init ==
  /\ parameterObject = NoParameter
  /\ raw = Undefined
  /\ validateOptions = "undefined"
  /\ processed = FALSE
  /\ processedValue = Undefined
  /\ error = NoError
  /\ isValid = "undefined"
  /\ paths \in Docs
  /\ loadedPaths = paths
  /\ escapes = <<>>
  /\ raised = FALSE
  /\ log = <<>>
  /\ validated = <<>>
  /\ first = Fresh(paths).first
  /\ last = Fresh(paths).last
  /\ reread = FALSE

\* a parameter value is constructed against the document
New ==
  /\ ~Live
  /\ Construct(paths)

\* the caller drops the instance; the document stays as the instance left it
Discard ==
  /\ Live
  /\ parameterObject' = NoParameter
  /\ raw' = Undefined
  /\ validateOptions' = "undefined"
  /\ reread' = FALSE
  /\ Install(Fresh(paths))

\* a read of .value
ReadValue ==
  /\ Live
  /\ \E c \in valueGet(parameterObject, raw, Cell) : Install(c)
  /\ reread' = (reread \/ first.value # NotReadValue)
  /\ UNCHANGED <<parameterObject, raw, validateOptions>>

\* a read of .valid
ReadValid ==
  /\ Live
  /\ \E c \in validGet(parameterObject, raw, validateOptions, Cell) : Install(c)
  /\ reread' = (reread \/ first.valid # NotReadValid)
  /\ UNCHANGED <<parameterObject, raw, validateOptions>>

\* a read of .error
ReadError ==
  /\ Live
  /\ \E c \in errorGet(parameterObject, raw, validateOptions, Cell) : Install(c)
  /\ reread' = (reread \/ first.error # NotReadError)
  /\ UNCHANGED <<parameterObject, raw, validateOptions>>

Next == New \/ Discard \/ ReadValue \/ ReadValid \/ ReadError

Spec == Init /\ [][Next]_vars

-----------------------------------------------------------------------------
(* Vocabulary of the properties *)

LogIndex == 1..Len(log)
ConvertCalls == {i \in LogIndex : log[i].op = "convert"}
RequiredChecks == {i \in LogIndex : log[i].op = "required"}
ValidateCalls == {i \in LogIndex : log[i].op = "validate"}

\* the value getter caught an exception of convertValue
CoercionErrorCaptured == \E i \in ConvertCalls : log[i].threw

\* the valid getter has computed its verdict
Evaluated == Live /\ isValid # "undefined"

\* what a read of .error answers in this state
ErrorFacet == ErrorResult(Cell)

-----------------------------------------------------------------------------
(* C1 *)

\* C1: whatever facets are read and however often, convertValue is called at most
\* once per schema node (the schema itself, or each oneOf alternative),
\* validateAgainstSchema at most once, and every read of a facet answers what the
\* first read of that facet answered.
C1_ComputedAtMostOnce ==
  /\ \A i, j \in ConvertCalls : i # j => log[i].idx # log[j].idx
  /\ Cardinality(ValidateCalls) <= 1
  /\ Len(validated) <= 1
  /\ last = first

\* all three facets were read, one of them again, after a oneOf coercion that
\* tried two alternatives and a full schema validation
C1_Witness ==
  /\ Live /\ reread
  /\ first.value # NotReadValue /\ first.valid # NotReadValid /\ first.error # NotReadError
  /\ Cardinality(ConvertCalls) = 2
  /\ Len(validated) = 1

-----------------------------------------------------------------------------
(* C2 *)

\* the order of the log and what the validator was given
C2_Order ==
  /\ \A i \in ConvertCalls : \A j \in RequiredChecks \cup ValidateCalls : i < j
  /\ \A k \in 1..Len(validated) : validated[k].value = processedValue
  /\ \A j \in RequiredChecks \cup ValidateCalls : log[j].arg = processedValue
  /\ (first.valid # NotReadValid \/ first.error # NotReadError) =>
       processed /\ first.value # NotReadValue

\* once the verdict is there, no read calls a collaborator
C2_NoRecompute ==
  (Evaluated /\ Live') => (log' = log /\ validated' = validated)

\* C2: on the first read of valid or error the coercion (default fallback included)
\* is over before the requiredness check and before the validator is called, the
\* validator is given the cached coerced value; after a read of valid or error the
\* value facet is evaluated; and with the verdict computed, a read (of error in
\* particular) calls neither convertValue nor the validator.
C2_ValueThenValid == [](C2_Order) /\ [][C2_NoRecompute]_vars

\* error was read again after the verdict, the validator was given a coerced value
\* that differs from raw
C2_Witness ==
  /\ Live /\ reread /\ first.error # NotReadError
  /\ Len(validated) = 1 /\ validated[1].value # raw
  /\ ConvertCalls # {} /\ RequiredChecks # {}

-----------------------------------------------------------------------------
(* C3 *)

\* C3: once valid has been evaluated, valid is true exactly when error is undefined;
\* this holds of the cached verdict and error and of what the reads answered.
C3_ValidIffNoError ==
  /\ Evaluated => ((isValid = "true") <=> (ErrorFacet = NoError))
  /\ Evaluated => ((isValid = "true") <=> (error = NoError))
  /\ last.error # NotReadError => ((last.valid = "true") <=> (last.error = NoError))

\* valid answered false and error answered the schema validation error
C3_Witness ==
  /\ Live /\ last.valid = "false"
  /\ last.error.code = "SCHEMA_VALIDATION_FAILED"

-----------------------------------------------------------------------------
(* C4 *)

\* C4: required === true, no coercion error, value undefined after coercion and
\* default fallback: valid is false, the error is MISSING_REQUIRED_PARAMETER and the
\* validator is not called, whatever skip condition would apply; the error is
\* produced in no other case, so not when a default made value defined.
C4_MissingRequired ==
  /\ (Evaluated /\ parameterObject.required = "true" /\ ~CoercionErrorCaptured
        /\ isUndefined(processedValue)) =>
       /\ isValid = "false"
       /\ ErrorFacet.code = "MISSING_REQUIRED_PARAMETER"
       /\ validated = <<>> /\ ValidateCalls = {}
  /\ (Evaluated /\ error.code = "MISSING_REQUIRED_PARAMETER") =>
       parameterObject.required = "true" /\ isUndefined(processedValue)

\* a required file parameter without a value: the file skip condition would apply
C4_Witness ==
  /\ Evaluated /\ parameterObject.required = "true" /\ parameterObject.type = "file"
  /\ isUndefined(processedValue) /\ ~CoercionErrorCaptured
  /\ last.error.code = "MISSING_REQUIRED_PARAMETER"

-----------------------------------------------------------------------------
(* C5 *)

\* C5: required false or absent, no coercion error, value undefined: valid is true,
\* error is undefined and the validator is not called.
C5_OptionalAbsent ==
  (Evaluated /\ parameterObject.required \in {"false", "absent"}
     /\ ~CoercionErrorCaptured /\ isUndefined(processedValue)) =>
    /\ isValid = "true"
    /\ ErrorFacet = NoError
    /\ last.error \in {NotReadError, NoError}
    /\ validated = <<>> /\ ValidateCalls = {}

\* an optional parameter whose flag is absent and whose coercion yielded undefined
\* was read through error
C5_Witness ==
  /\ Evaluated /\ parameterObject.required = "absent"
  /\ parameterObject.type # "file" /\ ~isFile(parameterObject.schema)
  /\ isUndefined(processedValue) /\ ConvertCalls # {} /\ ~CoercionErrorCaptured
  /\ last.valid = "true" /\ last.error = NoError

-----------------------------------------------------------------------------
(* C6 *)

\* the six cases in which schema validation is not wanted, each by itself
SkipOptionalAbsent(po, value) ==
  po.required \in {"false", "absent"} /\ isUndefined(value)
SkipEmptyAllowed(po, value) == po.schema.allowEmptyValue /\ value = EmptyString
SkipFileParameter(po, value) == po.type = "file"
SkipDate(po, value) ==
  po.schema.type = "string" /\ po.schema.format \in {"date", "date-time"} /\ isDate(value)
SkipBuffer(po, value) == po.schema.type = "string" /\ hasReadUInt8(value)
SkipFileSchema(po, value) == isFile(po.schema)
AnySkipCondition(po, value) ==
  \/ SkipOptionalAbsent(po, value) \/ SkipEmptyAllowed(po, value)
  \/ SkipFileParameter(po, value) \/ SkipDate(po, value)
  \/ SkipBuffer(po, value) \/ SkipFileSchema(po, value)

\* the verdict was computed by the try block and the requiredness check passed
PassedRequiredness ==
  Evaluated /\ ~CoercionErrorCaptured /\ ~MissingRequired(parameterObject, processedValue)

\* C6: with no coercion error and the requiredness check passed, each of the six
\* skip conditions is enough by itself, whatever the schema type: the validator
\* is not called and valid is true.
C6_EachSkipConditionSuffices ==
  (PassedRequiredness /\ AnySkipCondition(parameterObject, processedValue)) =>
    (validated = <<>> /\ isValid = "true")

-----------------------------------------------------------------------------
(* C7 *)

\* C7: no coercion error, the requiredness check passed and none of the skip
\* conditions holds: the validator is called exactly once, with the root document
\* (its paths escaped), the coerced value, the schema path of ptr and
\* definition.schema, and the caller's options; when it returns, valid is true
\* exactly when its errors list is empty, whatever its warnings, and otherwise the
\* error is SCHEMA_VALIDATION_FAILED with that very list.
C7_SchemaValidation ==
  (PassedRequiredness /\ ~AnySkipCondition(parameterObject, processedValue)) =>
    /\ Len(validated) = 1 /\ Cardinality(ValidateCalls) = 1
    /\ validated[1].schemaObj = paths
    /\ validated[1].value = processedValue
    /\ validated[1].schemaPath =
         constructSchemaPathFromPtr(parameterObject.ptr, parameterObject.definitionSchema)
    /\ validated[1].options = validateOptions
    /\ ~validated[1].result.threw =>
         /\ (isValid = "true") <=> (validated[1].result.errors = <<>>)
         /\ validated[1].result.errors # <<>> =>
              /\ ErrorFacet.code = "SCHEMA_VALIDATION_FAILED"
              /\ ErrorFacet.errors = validated[1].result.errors

\* the validator returned warnings and no errors for a coerced value, with options
C7_Witness ==
  /\ PassedRequiredness /\ ~AnySkipCondition(parameterObject, processedValue)
  /\ Len(validated) = 1 /\ validated[1].result.warnings # <<>>
  /\ validated[1].options # "undefined"
  /\ last.valid = "true"

-----------------------------------------------------------------------------
(* C8 *)

\* C8: when convertValue throws while value is computed (for the schema or for any
\* oneOf alternative), value resolves to undefined: neither the result of an
\* earlier alternative nor a default.
C8_ThrowYieldsUndefined ==
  (Live /\ processed /\ CoercionErrorCaptured) =>
    /\ isUndefined(processedValue)
    /\ first.value \in {NotReadValue, Undefined}

-----------------------------------------------------------------------------
(* C9 *)

\* C9: with a coercion error captured, valid is false, the requiredness check is
\* not made (no MISSING_REQUIRED_PARAMETER replaces the error), the validator is
\* not called and error exposes the captured coercion error.
C9_CoercionErrorWins ==
  (Evaluated /\ CoercionErrorCaptured) =>
    /\ isValid = "false"
    /\ RequiredChecks = {} /\ ValidateCalls = {} /\ validated = <<>>
    /\ ErrorFacet.code = CoercionError.code
    /\ last.error # NotReadError => last.error.code = CoercionError.code

\* a required parameter whose coercion threw, so that value is undefined, read
\* through error
C9_Witness ==
  /\ Evaluated /\ CoercionErrorCaptured
  /\ parameterObject.required = "true" /\ isUndefined(processedValue)
  /\ last.valid = "false" /\ last.error.code = CoercionError.code

-----------------------------------------------------------------------------
(* C10 *)

\* C10: every error exposed when valid is false, whatever its origin, has the code
\* MISSING_REQUIRED_PARAMETER or SCHEMA_VALIDATION_FAILED, failedValidation = true
\* and schemaPath = the descriptor's ptr.
C10_ErrorShape ==
  (Evaluated /\ isValid = "false") =>
    /\ ErrorFacet.code \in {"MISSING_REQUIRED_PARAMETER", "SCHEMA_VALIDATION_FAILED"}
    /\ ErrorFacet.failedValidation
    /\ ErrorFacet.schemaPath = parameterObject.ptr

-----------------------------------------------------------------------------
(* C11 *)

\* validateAgainstSchema threw in this instance's validation
ValidatorThrew == \E k \in 1..Len(validated) : validated[k].result.threw

\* no read raises; a throw of the validator is the error of a false verdict
C11_Captured ==
  /\ ~raised
  /\ (Live /\ ValidatorThrew) =>
       /\ isValid = "false"
       /\ ErrorFacet.code = validated[1].result.thrown.code
       /\ last.valid = "false"
       /\ last.error # NotReadError => last.error.code = validated[1].result.thrown.code

\* a false verdict stays false
C11_StaysFalse ==
  (Live /\ Live' /\ isValid = "false") => (isValid' = "false" /\ last'.valid = "false")

\* C11: whether convertValue and validateAgainstSchema return or throw, reads of
\* value, valid and error end with an answer, never with an exception; when the
\* validator throws, valid is false, error is the thrown object, and later reads
\* still answer false.
C11_NothingPropagates == [](C11_Captured) /\ [][C11_StaysFalse]_vars

-----------------------------------------------------------------------------
(* C12 *)

\* the live instance has a non-file schema with a oneOf list, and value was computed
OneOfProcessed ==
  /\ Live /\ processed
  /\ parameterObject.schema.type # "file"
  /\ parameterObject.schema.oneOf # NoOneOf

\* the alternative tried by log entry i
AltOf(i) == log[i].idx

\* log entry i is a conversion whose result is defined and not identical to raw
Informative(i) == ~log[i].threw /\ log[i].out # Undefined /\ log[i].out # raw

\* C12: for a non-file schema with oneOf the alternatives are tried in declared
\* order and none but the null-typed ones is passed over, convertValue is never
\* called for a null-typed alternative, the first result that is defined and not
\* identical to raw is the coerced value, and no alternative after it is tried.
C12_FirstMatchWins ==
  OneOfProcessed =>
    LET alts == parameterObject.schema.oneOf IN
    /\ \A i \in ConvertCalls :
         /\ AltOf(i) \in 1..Len(alts)
         /\ alts[AltOf(i)] # "null"
         /\ log[i].node = alts[AltOf(i)] /\ log[i].arg = raw
         /\ \A k \in 1..(AltOf(i) - 1) :
              alts[k] # "null" => \E j \in ConvertCalls : j < i /\ AltOf(j) = k
    /\ \A i, j \in ConvertCalls : i < j => AltOf(i) < AltOf(j)
    /\ \A i \in ConvertCalls :
         Informative(i) =>
           /\ processedValue = log[i].out
           /\ \A j \in ConvertCalls : j <= i
    /\ (~CoercionErrorCaptured /\ \A i \in ConvertCalls : ~Informative(i)) =>
         \A k \in 1..Len(alts) :
           alts[k] # "null" => \E j \in ConvertCalls : AltOf(j) = k

\* the null alternative was passed over, the second alternative was accepted and
\* the third one never tried
C12_Witness ==
  /\ OneOfProcessed
  /\ Len(parameterObject.schema.oneOf) = 3 /\ parameterObject.schema.oneOf[1] = "null"
  /\ Cardinality(ConvertCalls) = 1
  /\ \E i \in ConvertCalls : AltOf(i) = 2 /\ Informative(i) /\ processedValue = log[i].out

-----------------------------------------------------------------------------
(* C13 *)

\* the result of the last conversion made, undefined when none was made
LastConverted ==
  IF ConvertCalls = {} THEN Undefined
  ELSE log[CHOOSE i \in ConvertCalls : \A j \in ConvertCalls : j <= i].out

\* value was computed for a non-file schema, nothing was thrown and the coercion
\* left undefined
CoercionYieldedUndefined ==
  /\ Live /\ processed
  /\ parameterObject.schema.type # "file"
  /\ ~CoercionErrorCaptured
  /\ isUndefined(LastConverted)

\* the default the items of an array schema give, undefined when they give none
ItemDerivedDefault(schema) ==
  IF schema.type = "array" /\ schema.items.kind = "list"
       /\ \E i \in 1..Len(schema.items.defaults) : schema.items.defaults[i] # "undefined"
  THEN ArrayOf(schema.items.defaults)
  ELSE IF schema.type = "array" /\ schema.items.kind = "single"
            /\ schema.items.defaults[1] # "undefined"
       THEN ArrayOf(<<schema.items.defaults[1]>>)
       ELSE Undefined

\* the chain: the items' default first, the schema's own default next
ChainDefault(schema) ==
  IF ItemDerivedDefault(schema) # Undefined
  THEN ItemDerivedDefault(schema)
  ELSE schema.default

\* C13: when the coercion yields undefined and no error was captured, value is: for
\* an array schema with a list of item schemas, the list of their defaults in
\* order (same length, undefined entries kept) if one of them is defined; for an
\* array schema with one item schema that has a default, the one-element array of
\* it; and only otherwise the schema's own default, or undefined without one.
C13_DefaultChain ==
  CoercionYieldedUndefined =>
    /\ processedValue = ChainDefault(parameterObject.schema)
    /\ (processedValue.k = "array" /\ parameterObject.schema.items.kind = "list") =>
         Len(processedValue.e) = Len(parameterObject.schema.items.defaults)

\* a tuple with one defaulted item wins over the schema's own default
C13_Witness ==
  /\ CoercionYieldedUndefined
  /\ ConvertCalls # {}
  /\ parameterObject.schema.items.kind = "list"
  /\ parameterObject.schema.default = SchemaDefault
  /\ processedValue = ArrayOf(<<ItemDefault, "undefined">>)

-----------------------------------------------------------------------------
(* C14 *)

\* value was computed without a coercion error for a schema that has a default
ProcessedWithDefault ==
  /\ Live /\ processed
  /\ ~CoercionErrorCaptured
  /\ ~isUndefined(parameterObject.schema.default)

\* C14: for every schema with a default of its own, file-typed or not, value is
\* never undefined once evaluated without a coercion error.
C14_DefaultNeverUndefined ==
  ProcessedWithDefault => ~isUndefined(processedValue)

-----------------------------------------------------------------------------
(* C15 *)

\* the object p as a map from its keys to their path items, the order left out
PathMap(p) == [k \in {p[i][1] : i \in 1..Len(p)} |-> getPath(p, k)]

\* the keys of the map m whose escaped form is k and differs from them
EscapedTo(m, k) == {j \in DOMAIN m : j # k /\ escapeSingleQuotes(j) = k}

\* the map a single escaping pass makes of the object p, stated key by key
SinglePass(p) ==
  LET m == PathMap(p) IN
  [k \in DOMAIN m \cup {escapeSingleQuotes(j) : j \in DOMAIN m} |->
     IF EscapedTo(m, k) # {} THEN m[CHOOSE j \in EscapedTo(m, k) : TRUE]
     ELSE m[k]]

\* the document as loaded, as a map
Loaded == PathMap(loadedPaths)

\* C15: whatever instances validated against the document and in whatever order,
\* `paths` is the document as loaded or the result of one escaping pass over it,
\* it is the latter once a validation ran, and every validator call was handed
\* the singly escaped document.
C15_EscapedOnce ==
  /\ PathMap(paths) \in {Loaded, SinglePass(loadedPaths)}
  /\ \A k \in 1..Len(validated) :
       PathMap(validated[k].schemaObj) = SinglePass(loadedPaths)
  /\ \A k \in 1..Len(escapes) :
       /\ PathMap(escapes[k].before) \in {Loaded, SinglePass(loadedPaths)}
       /\ PathMap(escapes[k].after) = SinglePass(loadedPaths)
  /\ (validated # <<>> \/ escapes # <<>>) => PathMap(paths) = SinglePass(loadedPaths)

\* a later instance validated against a document an earlier one had escaped
C15_Witness ==
  /\ Live /\ validated # <<>> /\ escapes # <<>>
  /\ PathMap(escapes[1].before) # Loaded
  /\ PathMap(escapes[1].before) = SinglePass(loadedPaths)
  /\ escapes[1].after = escapes[1].before
  /\ PathMap(paths) = SinglePass(loadedPaths)

-----------------------------------------------------------------------------
(* C16 *)

\* neither .valid nor .error has been read, a read that raised included
ValidUnread == first.valid = NotReadValid /\ first.error = NotReadError /\ ~raised

\* until a facet is read nothing is computed; until .valid or .error is read,
\* whatever was read of .value, no requiredness check and no validator call was
\* made and the verdict is unset
C16_NothingBeforeRead ==
  /\ (Live /\ first.value = NotReadValue) =>
       (log = <<>> /\ ~processed /\ validated = <<>> /\ isValid = "undefined")
  /\ (Live /\ ValidUnread) =>
       /\ isValid = "undefined"
       /\ RequiredChecks = {} /\ ValidateCalls = {}
       /\ validated = <<>> /\ escapes = <<>>
       /\ PathMap(paths) \in {Loaded, SinglePass(loadedPaths)}

\* the constructor calls nothing, and the first read of .valid after any reads of
\* .value computes the verdict by the policy: the value is processed (without a
\* second coercion), and unless a coercion error was captured the requiredness
\* check is made
C16_FirstValidRead ==
  /\ (~Live /\ Live') =>
       (log' = <<>> /\ validated' = <<>> /\ ~processed' /\ isValid' = "undefined"
        /\ paths' = paths)
  /\ (Live /\ Live' /\ ~raised /\ first.valid = NotReadValid
        /\ first'.valid # NotReadValid) =>
       /\ isValid = "undefined" /\ isValid' # "undefined"
       /\ first'.valid = isValid'
       /\ processed'
       /\ processed => (processedValue' = processedValue /\ ConvertCalls' = ConvertCalls)
       /\ CoercionErrorCaptured' \/ RequiredChecks' # {}

\* C16: construction calls neither convertValue nor the validator; reads of .value
\* alone never run the requiredness check or the validator and leave the verdict
\* unset; the first later read of .valid still evaluates the validation policy.
C16_Lazy == [](C16_NothingBeforeRead) /\ [][C16_FirstValidRead]_vars

\* .value was read twice, coercion ran, and .valid is still unevaluated
C16_Witness ==
  /\ Live /\ reread /\ ValidUnread
  /\ first.value # NotReadValue
  /\ processed /\ ConvertCalls # {}
  /\ isValid = "undefined"

-----------------------------------------------------------------------------
(* C17 *)

\* C17: for a schema of type file, once value is computed it is raw itself,
\* undefined included and whatever defaults the schema has; convertValue was not
\* called, and no error is pending before the verdict is computed.
C17_FilePassThrough ==
  (Live /\ processed /\ parameterObject.schema.type = "file") =>
    /\ processedValue = raw
    /\ first.value = raw /\ last.value = raw
    /\ ConvertCalls = {}
    /\ ~CoercionErrorCaptured
    /\ isValid = "undefined" => error = NoError

\* an undefined raw value passed through a file schema that has a default
C17_Witness ==
  /\ Live /\ processed /\ parameterObject.schema.type = "file"
  /\ ~isUndefined(parameterObject.schema.default)
  /\ isUndefined(raw) /\ isUndefined(processedValue)
  /\ first.value = Undefined

-----------------------------------------------------------------------------
(* C18 *)

\* value was computed for a oneOf schema and no alternative gave a result that is
\* defined and not identical to raw (an alternative that threw gave none)
NoAlternativeMatched ==
  /\ OneOfProcessed
  /\ \A i \in ConvertCalls : ~Informative(i)

\* the conversions that returned
Returned == {i \in ConvertCalls : ~log[i].threw}

\* the result of the last conversion that returned, undefined when none did
LastReturned ==
  IF Returned = {} THEN Undefined
  ELSE log[CHOOSE i \in Returned : \A j \in Returned : j <= i].out

\* C18: when no alternative of a oneOf schema gives a result that is defined and
\* different from raw, the coerced value stays undefined, so that value is what the
\* default chain gives, and undefined when the schema has no default.
C18_NoMatchStaysUndefined ==
  NoAlternativeMatched => processedValue = ChainDefault(parameterObject.schema)

\* C18, amended: when no alternative of a oneOf schema gives a result that is
\* defined and different from raw, the coerced value is the result of the last
\* alternative that returned: undefined or raw itself, and undefined when none
\* returned (every alternative null-typed, or the first one tried threw).  The
\* default chain applies exactly when that result is undefined and no alternative
\* threw (value being undefined without a default); in every other case value is
\* that result.
C18_NoMatchKeepsLastAttempt ==
  NoAlternativeMatched =>
    LET alts == parameterObject.schema.oneOf IN
    /\ LastReturned \in {Undefined, raw}
    /\ (\A k \in 1..Len(alts) : alts[k] = "null") =>
         (ConvertCalls = {} /\ isUndefined(LastReturned))
    /\ processedValue = IF isUndefined(LastReturned) /\ ~CoercionErrorCaptured
                        THEN ChainDefault(parameterObject.schema)
                        ELSE LastReturned

\* the first alternative gave undefined, the last one gave back raw, none threw:
\* value is raw and the schema's default was not used
C18_Witness ==
  /\ NoAlternativeMatched
  /\ ~CoercionErrorCaptured
  /\ Cardinality(ConvertCalls) = 2
  /\ \E i \in ConvertCalls : isUndefined(log[i].out)
  /\ ~isUndefined(raw) /\ LastReturned = raw
  /\ parameterObject.schema.default = SchemaDefault
  /\ processedValue = raw

-----------------------------------------------------------------------------
(* C19 *)

\* C19: an escaping pass only adds entries to `paths`: every key present before
\* it is present after it with the same path item, and every key it added is the
\* escaped form of a key present before, with that key's path item; also when the
\* escaped form of one key is another key of the document.
C19_OnlyAdds ==
  \A n \in 1..Len(escapes) :
    LET before == PathMap(escapes[n].before)
        after == PathMap(escapes[n].after) IN
    /\ \A k \in DOMAIN before : k \in DOMAIN after /\ after[k] = before[k]
    /\ \A k \in DOMAIN after \ DOMAIN before :
         \E j \in DOMAIN before : escapeSingleQuotes(j) = k /\ after[k] = before[j]

-----------------------------------------------------------------------------
(* C20 *)

\* a step changes `paths` only if it is the read, by a live instance whose verdict
\* was unset, that calls the validator; and no step in the life of an instance
\* changes its raw value, its descriptor or its validation options
C20_Frame ==
  /\ paths' # paths =>
       /\ Live /\ Live'
       /\ isValid = "undefined" /\ isValid' # "undefined"
       /\ validated = <<>> /\ Len(validated') = 1
       /\ ~CoercionErrorCaptured'
       /\ \E i \in RequiredChecks' : ~log'[i].threw
       /\ paths' = validated'[1].schemaObj
  /\ validated' = validated => paths' = paths
  /\ (Live /\ Live') =>
       /\ raw' = raw
       /\ parameterObject' = parameterObject
       /\ validateOptions' = validateOptions
  /\ loadedPaths' = loadedPaths

\* C20: construction, reads of .value, repeated reads of .valid and .error, and a
\* first evaluation of .valid that ends in a coercion error, a missing required
\* value or a skipped validation leave `paths` as it was; only an evaluation that
\* reaches the validator changes it; raw, the descriptor and the validation
\* options of an instance never change.
C20_DocumentFrame == [][C20_Frame]_vars

\* a validation has changed the document, and the verdict was read again since
C20_Witness ==
  /\ Live /\ reread
  /\ Len(validated) = 1 /\ Len(escapes) = 1
  /\ escapes[1].before = loadedPaths
  /\ escapes[1].after # loadedPaths
  /\ paths = escapes[1].after

====
